---- MODULE Spec2Model ----
(***************************************************************************)
(* Model of the dictation controller (src/dictation/main.py), the audio    *)
(* recorder (src/dictation/audio.py) and the transcription front end       *)
(* (src/dictation/transcriber.py).                                         *)
(*                                                                         *)
(* Threads: the hotkey thread (press/release handlers), the audio callback *)
(* thread of the open input stream, and the two threads of the executor.   *)
(* Texts are sequences of one-character strings, so that split, join and   *)
(* strip are computed as the code computes them.                           *)
(***************************************************************************)
EXTENDS Integers, Sequences, FiniteSets, TLC

\* ------------------------------------------------------------- bounds
\* Chunk notifications delivered in one behaviour.
MaxChunks == 2
\* Recording sessions started in one behaviour.
MaxSessions == 2
\* Frames delivered by one audio callback: 1..MaxBlock.
MaxBlock == 2
\* AudioRecorder.BUFFER_SIZE, in samples (scaled down from 16000 * 300).
BUFFER_SIZE == 3
\* int(config.streaming_interval * SAMPLE_RATE), in samples (scaled down).
ChunkSamples == 2
\* Words of a text drawn for the reconciler on its own.
MaxWords == 2

\* Bits of the significand of a sample (DTYPE = np.float32 has 24).
MantissaBits == 3

\* Binades the samples of a filter input are drawn from.
ExpSpan == 2

\* Longest input of a filter call.
DspLen == 2

\* The attack and release coefficients are multiples of 1 / CoefSteps.
CoefSteps == 4

\* ------------------------------------------------------------- texts
Min(a, b) == IF a < b THEN a ELSE b

Max(a, b) == IF a < b THEN b ELSE a

SP == " "

hello == <<"h", "e", "l", "l", "o">>

world == <<"w", "o", "r", "l", "d">>

there == <<"t", "h", "e", "r", "e">>

EmptyText == << >>

\* str.split(): the maximal runs of non-whitespace characters, in order.
RECURSIVE SplitFrom(_, _, _, _)
SplitFrom(s, i, cur, acc) ==
    IF i > Len(s)
    THEN IF cur = << >> THEN acc ELSE Append(acc, cur)
    ELSE IF s[i] = SP
         THEN SplitFrom(s, i + 1, << >>, IF cur = << >> THEN acc ELSE Append(acc, cur))
         ELSE SplitFrom(s, i + 1, Append(cur, s[i]), acc)

Split(s) == SplitFrom(s, 1, << >>, << >>)

\* " ".join(words)
RECURSIVE Join(_)
Join(words) ==
    IF words = << >> THEN << >>
    ELSE IF Len(words) = 1 THEN words[1]
    ELSE words[1] \o <<SP>> \o Join(Tail(words))

\* str.strip(): leading and trailing whitespace removed.
RECURSIVE LStrip(_)
LStrip(s) == IF s # << >> /\ s[1] = SP THEN LStrip(Tail(s)) ELSE s

RECURSIVE RStrip(_)
RStrip(s) ==
    IF s # << >> /\ s[Len(s)] = SP THEN RStrip(SubSeq(s, 1, Len(s) - 1)) ELSE s

Strip(s) == RStrip(LStrip(s))

\* ------------------------------------------------------------- transcriber
\* Sample amplitudes, in units of config.silence_threshold.
Samples == {0, 1}

\* config.silence_threshold, in sample units.
SilenceThreshold == 1

RECURSIVE SumSq(_)
SumSq(a) == IF a = << >> THEN 0 ELSE a[1] * a[1] + SumSq(Tail(a))

\* As is_silence, with the peak compared in place of the RMS.
is_silence_peak(a, threshold) ==
    \A i \in 1..Len(a) : a[i] * a[i] < threshold * threshold

\* is_silence: sqrt(mean(audio**2)) < threshold, compared on the squares.
is_silence(a, threshold) ==
    IF Len(a) = 0 THEN TRUE
    ELSE SumSq(a) < threshold * threshold * Len(a)

HALLUCINATIONS ==
    {
      <<"t", "h", "a", "n", "k", " ", "y", "o", "u">>,
      <<"t", "h", "a", "n", "k", "s", " ", "f", "o", "r", " ", "w", "a", "t", "c", "h", "i", "n", "g">>,
      <<"t", "h", "a", "n", "k", "s", " ", "f", "o", "r", " ", "l", "i", "s", "t", "e", "n", "i", "n", "g">>,
      <<"s", "u", "b", "s", "c", "r", "i", "b", "e">>,
      <<"l", "i", "k", "e", " ", "a", "n", "d", " ", "s", "u", "b", "s", "c", "r", "i", "b", "e">>,
      <<"s", "e", "e", " ", "y", "o", "u", " ", "n", "e", "x", "t", " ", "t", "i", "m", "e">>,
      <<"b", "y", "e">>,
      <<"g", "o", "o", "d", "b", "y", "e">>,
      <<"y", "o", "u">>,
      <<"t", "h", "e", " ", "e", "n", "d">>,
      <<".", ".", ".">>,
      <<".">>
    }

\* str.lower() on the characters the recognizer's texts use.
LowerChar(c) ==
    CASE c = "Y" -> "y"
      [] c = "H" -> "h"
      [] c = "B" -> "b"
      [] OTHER -> c

Lower(s) == [i \in 1..Len(s) |-> LowerChar(s[i])]

\* str.rstrip(chars)
RECURSIVE RStripChars(_, _)
RStripChars(s, chars) ==
    IF s # << >> /\ s[Len(s)] \in chars
    THEN RStripChars(SubSeq(s, 1, Len(s) - 1), chars)
    ELSE s

\* As is_hallucination, comparing without lower(): a capitalized junk
\* phrase passes the filter.
is_hallucination_cased(text) ==
    LET cleaned == RStripChars(Strip(text), {".", "!", "?", ","})
    IN  cleaned \in HALLUCINATIONS \/ Len(cleaned) < 2

is_hallucination(text) ==
    LET cleaned == RStripChars(Strip(Lower(text)), {".", "!", "?", ","})
    IN  cleaned \in HALLUCINATIONS \/ Len(cleaned) < 2

\* The tail of transcribe: result["text"].strip(), emptied when it is a
\* hallucination.
PostProcess(raw) ==
    LET text == Strip(raw)
    IN  IF is_hallucination(text) THEN EmptyText ELSE text

\* True when transcribe returns "" before the recognizer is invoked.
SkipsRecognizer(a) == Len(a) = 0 \/ is_silence(a, SilenceThreshold)

\* ------------------------------------------------------------- reconciler
\* The loop of _update_streaming_text: the count of equal leading words,
\* stopping at the first difference.
RECURSIVE CommonLoop(_, _, _, _)
CommonLoop(old_words, new_words, i, common_count) ==
    IF i >= Min(Len(old_words), Len(new_words))
    THEN common_count
    ELSE IF old_words[i + 1] = new_words[i + 1]
         THEN CommonLoop(old_words, new_words, i + 1, i + 1)
         ELSE common_count

CommonCount(old_words, new_words) == CommonLoop(old_words, new_words, 0, 0)

StablePart(new_words, common_count) == Join(SubSeq(new_words, 1, common_count))

Suffix(words, common_count) == Join(SubSeq(words, common_count + 1, Len(words)))

\* As CharsToDelete, without the separating space.
CharsToDeleteNoSpace(old_suffix, stable_part) == Len(old_suffix)

CharsToDelete(old_suffix, stable_part) ==
    Len(old_suffix) + (IF old_suffix # << >> /\ stable_part # << >> THEN 1 ELSE 0)

TextToAdd(new_suffix, stable_part) ==
    IF new_suffix # << >>
    THEN (IF stable_part # << >> THEN <<SP>> \o new_suffix ELSE new_suffix)
    ELSE << >>

\* The edit _update_streaming_text computes for last_text -> new_text.
Edit(old_text, new_text) ==
    LET old_words == Split(old_text)
        new_words == Split(new_text)
        common_count == CommonCount(old_words, new_words)
        stable_part == StablePart(new_words, common_count)
        old_suffix == Suffix(old_words, common_count)
        new_suffix == Suffix(new_words, common_count)
    IN  [chars_to_delete |-> CharsToDelete(old_suffix, stable_part),
         text_to_add |-> TextToAdd(new_suffix, stable_part)]

\* ------------------------------------------------------------- injector
\* delete_chars(n): the last n characters of the target are removed.
delete_chars(text, n) == SubSeq(text, 1, Max(0, Len(text) - n))

\* inject_text(s): s is typed at the end of the target.
inject_text(text, s) == text \o s

\* ------------------------------------------------------------- state
Workers == {1, 2}

\* Texts the recognizer (model.transcribe) returns for a chunk or a capture.
RawTexts ==
    { <<SP>> \o hello \o <<SP>> \o world,
      hello \o <<SP, SP>> \o there,
      hello,
      world,
      <<"Y", "o", "u", ".">> }

NoJob == [kind |-> "none", id |-> 0, session |-> 0, audio |-> << >>]

NoCmd == [op |-> "none", n |-> 0, text |-> << >>, session |-> 0]

IdleWorker ==
    [pc |-> "idle", job |-> NoJob, raw |-> << >>, text |-> << >>,
     chars_to_delete |-> 0, text_to_add |-> << >>, issued |-> << >>,
     applied |-> FALSE]

VARIABLES
    config,               \* get_config(): [mode, streaming]
    key_down,             \* the hotkey is held down
    hotkey,               \* the hotkey thread: [pc, audio]
    toggle_recording,     \* DictationController._toggle_recording
    last_text,            \* DictationController._last_text
    streaming_active,     \* DictationController._streaming_active
    transcribe_lock,      \* DictationController._transcribe_lock is held
    queue,                \* the executor's work queue
    workers,              \* the executor's two threads
    buffer,               \* AudioRecorder._buffer[:_write_pos]
    recording,            \* AudioRecorder._recording
    chunk_callback,       \* AudioRecorder._chunk_callback is set
    chunk_samples,        \* AudioRecorder._chunk_samples
    samples_since_chunk,  \* AudioRecorder._samples_since_chunk
    stream,               \* AudioRecorder._stream is an open input stream
    orphans,              \* open input streams that _stream refers to no more
    audio,                \* the audio callback thread: [pc, id, snapshot]
    session,              \* sessions started so far
    closed,               \* the last session whose stop has returned
    chunk_seq,            \* chunk notifications delivered so far
    contended,            \* chunks that arrived while a recognition was in flight
    applied,              \* the chunks whose results the reconciler applied, in order
    target,               \* the text the session's commands materialized
    last_cmd,             \* the last command issued to the injector
    fed,                  \* the first BUFFER_SIZE frames delivered since start
    overflowed,           \* more than BUFFER_SIZE frames were delivered since start
    notified,             \* chunk notifications fired since start
    last_feed,            \* what the last callback found: "none", "stored", "ignored"
    shots,                \* per session: recognizer calls and inserts of its one-shot job
    failed,               \* the chunks whose recognition raised
    dsp                   \* a call of a filter of audio.py: [pc, audio, out, ...]

vars ==
    <<config, key_down, hotkey, toggle_recording, last_text, streaming_active,
      transcribe_lock, queue, workers, buffer, recording, chunk_callback,
      chunk_samples, samples_since_chunk, stream, orphans, audio, session, closed,
      chunk_seq, contended, applied, target, last_cmd, fed, overflowed,
      notified, last_feed, shots, failed, dsp>>

controllerVars == <<toggle_recording, last_text, streaming_active, transcribe_lock>>

recorderVars ==
    <<buffer, recording, chunk_callback, chunk_samples, samples_since_chunk, stream, orphans>>

historyVars == <<fed, overflowed, notified, last_feed, shots, failed>>

ghostVars == <<chunk_seq, contended, applied, target, last_cmd, historyVars>>

write_pos == Len(buffer)

\* AudioRecorder._lock is held by the audio thread for a whole callback; the
\* critical sections of start and stop are single steps.
RecorderLockFree == audio.pc = "idle"

IdleAudio == [pc |-> "idle", id |-> 0, snapshot |-> << >>]

\* No filter is being called.
NoDsp == [pc |-> "none"]

\* DictationController.__init__ and AudioRecorder.__init__
InitState ==
    /\ key_down = FALSE
    /\ hotkey = [pc |-> "idle", audio |-> << >>]
    /\ toggle_recording = FALSE
    /\ last_text = EmptyText
    /\ streaming_active = FALSE
    /\ transcribe_lock = FALSE
    /\ queue = << >>
    /\ workers = [w \in Workers |-> IdleWorker]
    /\ buffer = << >>
    /\ recording = FALSE
    /\ chunk_callback = FALSE
    /\ chunk_samples = 0
    /\ samples_since_chunk = 0
    /\ stream = FALSE
    /\ orphans = 0
    /\ audio = IdleAudio
    /\ session = 0
    /\ closed = 0
    /\ chunk_seq = 0
    /\ contended = {}
    /\ applied = << >>
    /\ target = EmptyText
    /\ last_cmd = NoCmd
    /\ fed = << >>
    /\ overflowed = FALSE
    /\ notified = 0
    /\ last_feed = "none"
    /\ shots = [s \in 1..MaxSessions |-> [calls |-> 0, inserts |-> 0]]
    /\ failed = {}

Init ==
    /\ config \in [mode : {"hold", "toggle"}, streaming : BOOLEAN]
    /\ InitState
    /\ dsp = NoDsp

\* ------------------------------------------------------------- hotkey thread
\* _start_recording, first statements: the reconciler is reset.
StartRecording ==
    /\ session < MaxSessions
    /\ session' = session + 1
    /\ last_text' = EmptyText
    /\ target' = EmptyText
    /\ hotkey' = [hotkey EXCEPT !.pc = "start_flag"]

\* _stop_and_transcribe, first statement.
StopAndTranscribe ==
    /\ streaming_active' = FALSE
    /\ hotkey' = [hotkey EXCEPT !.pc = "stop_rec1"]
    /\ UNCHANGED <<session, last_text, target>>

\* The hotkey source delivers edge events: a press while the key is up, a
\* release while it is down, one handler at a time.
KeyEdge(down) == hotkey.pc = "idle" /\ key_down # down

\* The key goes down: _on_hotkey_press.
Press ==
    /\ KeyEdge(TRUE)
    /\ key_down' = TRUE
    /\ IF config.mode = "hold"
       THEN StartRecording /\ UNCHANGED streaming_active
       ELSE IF toggle_recording
            THEN StopAndTranscribe
            ELSE StartRecording /\ UNCHANGED streaming_active
    /\ UNCHANGED <<config, dsp, toggle_recording, transcribe_lock, queue, workers,
                   recorderVars, audio, closed, chunk_seq, historyVars, contended, applied, last_cmd>>

\* The key goes up: _on_hotkey_release.
Release ==
    /\ KeyEdge(FALSE)
    /\ key_down' = FALSE
    /\ IF config.mode = "hold"
       THEN StopAndTranscribe
       ELSE UNCHANGED <<hotkey, streaming_active, session, last_text, target>>
    /\ UNCHANGED <<config, dsp, toggle_recording, transcribe_lock, queue, workers,
                   recorderVars, audio, closed, chunk_seq, historyVars, contended, applied, last_cmd>>

\* _start_recording: the streaming flag is raised in streaming mode.
StartFlag ==
    /\ hotkey.pc = "start_flag"
    /\ streaming_active' = (IF config.streaming THEN TRUE ELSE streaming_active)
    /\ hotkey' = [hotkey EXCEPT !.pc = "start_rec"]
    /\ UNCHANGED <<config, dsp, key_down, toggle_recording, last_text, transcribe_lock,
                   queue, workers, recorderVars, audio, session, closed, ghostVars>>

\* AudioRecorder.start, the section under the recorder lock.
RecorderStart ==
    /\ hotkey.pc = "start_rec"
    /\ RecorderLockFree
    /\ buffer' = << >>
    /\ recording' = TRUE
    /\ chunk_callback' = config.streaming
    /\ chunk_samples' = (IF config.streaming THEN ChunkSamples ELSE 0)
    /\ samples_since_chunk' = 0
    /\ fed' = << >>
    /\ overflowed' = FALSE
    /\ notified' = 0
    /\ last_feed' = "none"
    /\ hotkey' = [hotkey EXCEPT !.pc = "start_stream"]
    /\ UNCHANGED <<config, dsp, key_down, controllerVars, queue, workers, stream, orphans, audio,
                   session, closed, chunk_seq, contended, applied, target, last_cmd,
                   shots, failed>>

\* AudioRecorder.start: the input stream is opened and started; the handler
\* returns (in toggle mode after setting _toggle_recording). _stream is
\* assigned without a look at the stream it refers to: that one stays open
\* and started, and nothing refers to it any more.
RecorderOpenStream ==
    /\ hotkey.pc = "start_stream"
    /\ stream' = TRUE
    /\ orphans' = (IF stream THEN orphans + 1 ELSE orphans)
    /\ toggle_recording' = (IF config.mode = "hold" THEN toggle_recording ELSE TRUE)
    /\ hotkey' = [hotkey EXCEPT !.pc = "idle"]
    /\ UNCHANGED <<config, dsp, key_down, last_text, streaming_active, transcribe_lock,
                   queue, workers, buffer, recording, chunk_callback, chunk_samples,
                   samples_since_chunk, audio, session, closed, ghostVars>>

\* AudioRecorder.start: sd.InputStream or its start raises (no device, device
\* busy). Nothing catches the exception: start, _start_recording and the
\* press handler are left with what they had assigned so far.
RecorderOpenStreamFails ==
    /\ hotkey.pc = "start_stream"
    /\ hotkey' = [hotkey EXCEPT !.pc = "idle"]
    /\ UNCHANGED <<config, dsp, key_down, controllerVars, queue, workers, recorderVars,
                   audio, session, closed, ghostVars>>

\* AudioRecorder.stop, the first section under the recorder lock.
RecorderStopFlag ==
    /\ hotkey.pc = "stop_rec1"
    /\ RecorderLockFree
    /\ recording' = FALSE
    /\ chunk_callback' = FALSE
    /\ hotkey' = [hotkey EXCEPT !.pc = "stop_stream"]
    /\ UNCHANGED <<config, dsp, key_down, controllerVars, queue, workers, buffer,
                   chunk_samples, samples_since_chunk, stream, orphans, audio, session,
                   closed, ghostVars>>

\* AudioRecorder.stop: the stream is stopped and closed, which waits for a
\* callback in progress.
RecorderCloseStream ==
    /\ hotkey.pc = "stop_stream"
    /\ audio.pc = "idle"
    /\ stream' = FALSE
    /\ hotkey' = [hotkey EXCEPT !.pc = "stop_rec2"]
    /\ UNCHANGED <<config, dsp, key_down, controllerVars, queue, workers, buffer,
                   recording, chunk_callback, chunk_samples, samples_since_chunk,
                   orphans, audio, session, closed, ghostVars>>

\* AudioRecorder.stop, the second section under the recorder lock: the capture
\* is copied out and the write position reset.
RecorderStopCopy ==
    /\ hotkey.pc = "stop_rec2"
    /\ RecorderLockFree
    /\ buffer' = << >>
    /\ hotkey' = [pc |-> IF config.streaming THEN "stop_wait" ELSE "stop_submit",
                  audio |-> buffer]
    /\ fed' = << >>
    /\ overflowed' = FALSE
    /\ last_feed' = "none"
    /\ UNCHANGED <<config, dsp, key_down, controllerVars, queue, workers, recording,
                   chunk_callback, chunk_samples, samples_since_chunk, stream, orphans,
                   audio, session, closed, chunk_seq, contended, applied, target,
                   last_cmd, notified, shots, failed>>

\* What the press handler does after _stop_and_transcribe returns.
AfterStop == IF config.mode = "hold" THEN toggle_recording ELSE FALSE

\* As StopWaitToken, without taking the token: the reconciler is reset and
\* the handler returns while a recognition may be in flight.
StopWithoutToken ==
    /\ hotkey.pc = "stop_wait"
    /\ last_text' = EmptyText
    /\ toggle_recording' = AfterStop
    /\ closed' = session
    /\ hotkey' = [pc |-> "idle", audio |-> << >>]
    /\ UNCHANGED <<config, dsp, key_down, streaming_active, transcribe_lock, queue,
                   workers, recorderVars, audio, session, ghostVars>>

\* _stop_and_transcribe, streaming: the token is taken (blocking), the
\* reconciler reset, the token released; the handler returns.
StopWaitToken ==
    /\ hotkey.pc = "stop_wait"
    /\ ~transcribe_lock
    /\ last_text' = EmptyText
    /\ toggle_recording' = AfterStop
    /\ closed' = session
    /\ hotkey' = [pc |-> "idle", audio |-> << >>]
    /\ UNCHANGED <<config, dsp, key_down, streaming_active, transcribe_lock, queue,
                   workers, recorderVars, audio, session, ghostVars>>

\* _stop_and_transcribe, one-shot: do_transcribe is submitted to the executor.
StopSubmit ==
    /\ hotkey.pc = "stop_submit"
    /\ queue' = Append(queue, [kind |-> "oneshot", id |-> 0, session |-> session,
                               audio |-> hotkey.audio])
    /\ toggle_recording' = AfterStop
    /\ closed' = session
    /\ hotkey' = [pc |-> "idle", audio |-> << >>]
    /\ UNCHANGED <<config, dsp, key_down, last_text, streaming_active, transcribe_lock,
                   workers, recorderVars, audio, session, ghostVars>>

\* The steps of a handler in progress, in streaming mode and in general.
StreamingHotkeyStep ==
    \/ StartFlag
    \/ RecorderStart
    \/ RecorderOpenStream
    \/ RecorderStopFlag
    \/ RecorderCloseStream
    \/ RecorderStopCopy
    \/ StopWaitToken

HotkeyStep == StreamingHotkeyStep \/ StopSubmit

\* ------------------------------------------------------------- audio thread
\* The blocks the stream delivers: 1..MaxBlock frames of one amplitude.
Blocks == {[i \in 1..n |-> v] : n \in 1..MaxBlock, v \in Samples}

\* The blocks of a capture that is loud throughout.
LoudBlocks == {[i \in 1..n |-> 1] : n \in 1..MaxBlock}

\* Jobs admitted and not yet finished: the hand-off in progress, the queue
\* and the executor's threads.
ChunkJobs ==
    (IF audio.pc = "chunk_submit" THEN {audio.id} ELSE {})
    \cup {queue[i].id : i \in {j \in 1..Len(queue) : queue[j].kind = "chunk"}}
    \cup {workers[w].job.id : w \in {v \in Workers : workers[v].job.kind = "chunk"}}

\* As Accepts, with the recording flag not consulted.
AcceptsAlways(rec) == TRUE

\* if self._recording
Accepts(rec) == rec

\* As Stored, with the block written in front of the frames already stored.
StoredInFront(buf, data) ==
    SubSeq(data \o buf, 1, Min(Len(buf) + Len(data), BUFFER_SIZE))

\* As Stored, with the end position not clamped to the buffer size.
StoredUnclamped(buf, data) == buf \o data

\* buffer[write_pos:end_pos] = data[:copy_len]
Stored(buf, data) ==
    LET end_pos == Min(Len(buf) + Len(data), BUFFER_SIZE)
        copy_len == end_pos - Len(buf)
    IN  buf \o SubSeq(data, 1, copy_len)

\* As ChunkDue, firing only once the counter has passed the chunk size.
ChunkDueLate(counted, size) == counted > size

\* if self._samples_since_chunk >= self._chunk_samples
ChunkDue(counted, size) == counted >= size

\* As Snapshot, delivering only the frames counted since the last notification.
SnapshotSegment(filled, counted) ==
    SubSeq(filled, Max(0, Len(filled) - counted) + 1, Len(filled))

\* audio = self._buffer[:self._write_pos].copy()
Snapshot(filled, counted) == filled

\* AudioRecorder._callback up to the chunk notification.
Callback(indata) ==
    /\ audio.pc = "idle"
    /\ chunk_seq < MaxChunks
    /\ IF Accepts(recording)
       THEN LET frames == Len(indata)
                filled == Stored(buffer, indata)
                counting == chunk_callback /\ chunk_samples > 0
                counted == IF counting THEN samples_since_chunk + frames
                           ELSE samples_since_chunk
                notify == counting /\ ChunkDue(counted, chunk_samples)
            IN  /\ buffer' = filled
                /\ samples_since_chunk' = (IF notify THEN 0 ELSE counted)
                /\ chunk_seq' = (IF notify THEN chunk_seq + 1 ELSE chunk_seq)
                /\ notified' = (IF notify THEN notified + 1 ELSE notified)
                /\ audio' = (IF notify
                             THEN [pc |-> "chunk_enter", id |-> chunk_seq + 1,
                                   snapshot |-> Snapshot(filled, counted)]
                             ELSE audio)
                /\ fed' = (IF recording
                           THEN SubSeq(fed \o indata, 1,
                                       Min(Len(fed) + frames, BUFFER_SIZE))
                           ELSE fed)
                /\ overflowed' = (overflowed
                                  \/ (recording /\ Len(fed) + frames > BUFFER_SIZE))
                /\ last_feed' = (IF recording THEN "stored" ELSE "ignored")
       ELSE /\ last_feed' = "ignored"
            /\ UNCHANGED <<buffer, samples_since_chunk, chunk_seq, audio, fed,
                           overflowed, notified>>
    /\ UNCHANGED <<config, dsp, key_down, hotkey, controllerVars, queue, workers,
                   recording, chunk_callback, chunk_samples, stream, orphans, session,
                   closed, contended, applied, target, last_cmd, shots,
                   failed>>

\* An open input stream delivers a block to AudioRecorder._callback: the one
\* _stream refers to, or one that an earlier start left open.
AudioCallback(indata) ==
    /\ stream \/ orphans > 0
    /\ Callback(indata)

\* _on_audio_chunk: the streaming flag is read.
OnAudioChunkEnter ==
    /\ audio.pc = "chunk_enter"
    /\ audio' = (IF streaming_active THEN [audio EXCEPT !.pc = "chunk_acquire"]
                 ELSE IdleAudio)
    /\ UNCHANGED <<config, dsp, key_down, hotkey, controllerVars, queue, workers,
                   recorderVars, session, closed, ghostVars>>

\* As OnAudioChunkAcquire, with the result of acquire ignored: the chunk is
\* handed off whether or not the token was free.
OnAudioChunkAcquireUnchecked ==
    /\ audio.pc = "chunk_acquire"
    /\ contended' = (IF ChunkJobs # {} THEN contended \cup {audio.id} ELSE contended)
    /\ audio' = [audio EXCEPT !.pc = "chunk_submit"]
    /\ transcribe_lock' = TRUE
    /\ UNCHANGED <<config, dsp, key_down, hotkey, toggle_recording, last_text,
                   streaming_active, queue, workers, recorderVars, session, closed,
                   chunk_seq, historyVars, applied, target, last_cmd>>

\* As OnAudioChunkAcquire, with a blocking acquire: the callback waits for
\* the token.
OnAudioChunkAcquireBlocking ==
    /\ audio.pc = "chunk_acquire"
    /\ ~transcribe_lock
    /\ transcribe_lock' = TRUE
    /\ audio' = [audio EXCEPT !.pc = "chunk_submit"]
    /\ UNCHANGED <<config, dsp, key_down, hotkey, toggle_recording, last_text,
                   streaming_active, queue, workers, recorderVars, session, closed,
                   ghostVars>>

\* _on_audio_chunk: the non-blocking attempt on the token; the chunk is
\* dropped when the token is taken.
OnAudioChunkAcquire ==
    /\ audio.pc = "chunk_acquire"
    /\ contended' = (IF ChunkJobs # {} THEN contended \cup {audio.id} ELSE contended)
    /\ IF transcribe_lock
       THEN audio' = IdleAudio /\ UNCHANGED transcribe_lock
       ELSE audio' = [audio EXCEPT !.pc = "chunk_submit"] /\ transcribe_lock' = TRUE
    /\ UNCHANGED <<config, dsp, key_down, hotkey, toggle_recording, last_text,
                   streaming_active, queue, workers, recorderVars, session, closed,
                   chunk_seq, historyVars, applied, target, last_cmd>>

\* _on_audio_chunk: do_chunk_transcribe is submitted; the callback returns
\* and the recorder lock is released.
OnAudioChunkSubmit ==
    /\ audio.pc = "chunk_submit"
    /\ queue' = Append(queue, [kind |-> "chunk", id |-> audio.id,
                               session |-> session, audio |-> audio.snapshot])
    /\ audio' = IdleAudio
    /\ UNCHANGED <<config, dsp, key_down, hotkey, controllerVars, workers, recorderVars,
                   session, closed, ghostVars>>

AudioStep == OnAudioChunkEnter \/ OnAudioChunkAcquire \/ OnAudioChunkSubmit

\* ------------------------------------------------------------- executor
\* An idle thread of the pool takes the oldest job.
TakeJob(w) ==
    /\ workers[w].pc = "idle"
    /\ queue # << >>
    /\ workers' = [workers EXCEPT ![w] =
                     [IdleWorker EXCEPT !.job = Head(queue),
                                        !.pc = IF Head(queue).kind = "chunk"
                                               THEN "c_check1" ELSE "t_transcribe"]]
    /\ queue' = Tail(queue)
    /\ UNCHANGED <<config, dsp, key_down, hotkey, controllerVars, recorderVars, audio,
                   session, closed, ghostVars>>

\* As ChunkCheckActive, without the finally clause: a job that finds the
\* session stopped returns with the token still taken.
ChunkCheckActiveNoFinally(w) ==
    /\ workers[w].pc = "c_check1"
    /\ workers' = [workers EXCEPT ![w] =
                     IF streaming_active THEN [@ EXCEPT !.pc = "c_transcribe"]
                     ELSE IdleWorker]
    /\ UNCHANGED <<config, dsp, key_down, hotkey, controllerVars, queue, recorderVars,
                   audio, session, closed, ghostVars>>

\* do_chunk_transcribe: the first read of the streaming flag.
ChunkCheckActive(w) ==
    /\ workers[w].pc = "c_check1"
    /\ workers' = [workers EXCEPT ![w].pc =
                     IF streaming_active THEN "c_transcribe" ELSE "c_release"]
    /\ UNCHANGED <<config, dsp, key_down, hotkey, controllerVars, queue, recorderVars,
                   audio, session, closed, ghostVars>>

\* transcribe(audio): empty without the recognizer on an empty or silent
\* snapshot; otherwise the recognizer returns a text, which is stripped and
\* filtered.
Transcribed(w, raw) ==
    LET a == workers[w].job.audio
    IN  IF SkipsRecognizer(a)
        THEN [workers[w] EXCEPT !.raw = << >>, !.text = EmptyText]
        ELSE [workers[w] EXCEPT !.raw = raw, !.text = PostProcess(raw)]

\* do_chunk_transcribe: transcribe returns.
ChunkTranscribe(w, raw) ==
    /\ workers[w].pc = "c_transcribe"
    /\ workers' = [workers EXCEPT ![w] =
                     [Transcribed(w, raw) EXCEPT !.pc = "c_check2"]]
    /\ UNCHANGED <<config, dsp, key_down, hotkey, controllerVars, queue, recorderVars,
                   audio, session, closed, ghostVars>>

\* As ChunkTranscribeRaises, without the finally clause: the job ends with
\* the exception and the token still taken.
ChunkTranscribeRaisesNoFinally(w) ==
    /\ workers[w].pc = "c_transcribe"
    /\ ~SkipsRecognizer(workers[w].job.audio)
    /\ workers' = [workers EXCEPT ![w] = IdleWorker]
    /\ failed' = failed \cup {workers[w].job.id}
    /\ UNCHANGED <<config, dsp, key_down, hotkey, controllerVars, queue, recorderVars,
                   audio, session, closed, chunk_seq, contended, applied, target,
                   last_cmd, fed, overflowed, notified, last_feed, shots>>

\* do_chunk_transcribe: the recognizer raises; the finally clause runs next.
ChunkTranscribeRaises(w) ==
    /\ workers[w].pc = "c_transcribe"
    /\ ~SkipsRecognizer(workers[w].job.audio)
    /\ workers' = [workers EXCEPT ![w].pc = "c_release"]
    /\ failed' = failed \cup {workers[w].job.id}
    /\ UNCHANGED <<config, dsp, key_down, hotkey, controllerVars, queue, recorderVars,
                   audio, session, closed, chunk_seq, contended, applied, target,
                   last_cmd, fed, overflowed, notified, last_feed, shots>>

\* The condition under which do_chunk_transcribe calls _update_streaming_text.
ShouldUpdate(active, text) == active /\ text # EmptyText

\* do_chunk_transcribe: the second read of the streaming flag and the test
\* of the text; _update_streaming_text returns at once on an empty text,
\* and otherwise computes the edit from _last_text.
ChunkCheckText(w) ==
    /\ workers[w].pc = "c_check2"
    /\ workers' = [workers EXCEPT ![w] =
         IF ShouldUpdate(streaming_active, workers[w].text)
         THEN IF workers[w].text = EmptyText
              THEN [@ EXCEPT !.pc = "c_release"]
              ELSE LET e == Edit(last_text, workers[w].text)
                   IN  [@ EXCEPT !.pc = "u_delete",
                                 !.chars_to_delete = e.chars_to_delete,
                                 !.text_to_add = e.text_to_add]
         ELSE [@ EXCEPT !.pc = "c_release"]]
    /\ UNCHANGED <<config, dsp, key_down, hotkey, controllerVars, queue, recorderVars,
                   audio, session, closed, ghostVars>>

\* As IssuesDelete, with the count not tested.
IssuesDeleteAlways(n) == TRUE

\* if chars_to_delete > 0
IssuesDelete(n) == n > 0

\* if text_to_add
IssuesInsert(s) == s # << >>

\* _update_streaming_text: delete_chars when the count is positive.
UpdateDelete(w) ==
    /\ workers[w].pc = "u_delete"
    /\ LET n == workers[w].chars_to_delete
       IN  IF IssuesDelete(n)
           THEN /\ target' = delete_chars(target, n)
                /\ last_cmd' = [op |-> "delete", n |-> n, text |-> << >>,
                                session |-> workers[w].job.session]
                /\ workers' = [workers EXCEPT ![w].pc = "u_insert",
                                   ![w].issued = Append(@, "delete")]
           ELSE /\ workers' = [workers EXCEPT ![w].pc = "u_insert"]
                /\ UNCHANGED <<target, last_cmd>>
    /\ UNCHANGED <<config, dsp, key_down, hotkey, controllerVars, queue, recorderVars,
                   audio, session, closed, chunk_seq, historyVars, contended, applied>>

\* _update_streaming_text: inject_text when there is text to add.
UpdateInsert(w) ==
    /\ workers[w].pc = "u_insert"
    /\ LET s == workers[w].text_to_add
       IN  IF IssuesInsert(s)
           THEN /\ target' = inject_text(target, s)
                /\ last_cmd' = [op |-> "insert", n |-> 0, text |-> s,
                                session |-> workers[w].job.session]
                /\ workers' = [workers EXCEPT ![w].pc = "u_store",
                                   ![w].issued = Append(@, "insert")]
           ELSE /\ workers' = [workers EXCEPT ![w].pc = "u_store"]
                /\ UNCHANGED <<target, last_cmd>>
    /\ UNCHANGED <<config, dsp, key_down, hotkey, controllerVars, queue, recorderVars,
                   audio, session, closed, chunk_seq, historyVars, contended, applied>>

\* _update_streaming_text: _last_text = new_text.
UpdateStore(w) ==
    /\ workers[w].pc = "u_store"
    /\ last_text' = workers[w].text
    /\ applied' = Append(applied, workers[w].job.id)
    /\ workers' = [workers EXCEPT ![w].pc = "c_release", ![w].applied = TRUE]
    /\ UNCHANGED <<config, dsp, key_down, hotkey, toggle_recording, streaming_active,
                   transcribe_lock, queue, recorderVars, audio, session, closed,
                   chunk_seq, historyVars, contended, target, last_cmd>>

\* do_chunk_transcribe, finally: the token is released and the job ends.
ChunkRelease(w) ==
    /\ workers[w].pc = "c_release"
    /\ transcribe_lock' = FALSE
    /\ workers' = [workers EXCEPT ![w] = IdleWorker]
    /\ UNCHANGED <<config, dsp, key_down, hotkey, toggle_recording, last_text,
                   streaming_active, queue, recorderVars, audio, session, closed,
                   ghostVars>>

\* do_transcribe: transcribe(audio) over the full capture returns; the
\* recognizer has run unless the capture was empty or silent.
OneShotTranscribe(w, raw) ==
    /\ workers[w].pc = "t_transcribe"
    /\ workers' = [workers EXCEPT ![w] =
                     [Transcribed(w, raw) EXCEPT !.pc = "t_inject"]]
    /\ shots' = (IF SkipsRecognizer(workers[w].job.audio) THEN shots
                 ELSE [shots EXCEPT ![workers[w].job.session].calls = @ + 1])
    /\ UNCHANGED <<config, dsp, key_down, hotkey, controllerVars, queue, recorderVars,
                   audio, session, closed, chunk_seq, contended, applied, target,
                   last_cmd, fed, overflowed, notified, last_feed, failed>>

\* do_transcribe: the recognizer raises and the job ends with the exception.
OneShotRaises(w) ==
    /\ workers[w].pc = "t_transcribe"
    /\ ~SkipsRecognizer(workers[w].job.audio)
    /\ workers' = [workers EXCEPT ![w] = IdleWorker]
    /\ shots' = [shots EXCEPT ![workers[w].job.session].calls = @ + 1]
    /\ UNCHANGED <<config, dsp, key_down, hotkey, controllerVars, queue, recorderVars,
                   audio, session, closed, chunk_seq, contended, applied, target,
                   last_cmd, fed, overflowed, notified, last_feed, failed>>

\* As InjectsText, with the text not tested.
InjectsTextAlways(s) == TRUE

\* if text
InjectsText(s) == s # EmptyText

\* _inject_result: the whole text is injected when it is not empty.
InjectResult(w) ==
    /\ workers[w].pc = "t_inject"
    /\ LET s == workers[w].text
       IN  IF InjectsText(s)
           THEN /\ target' = inject_text(target, s)
                /\ last_cmd' = [op |-> "insert", n |-> 0, text |-> s,
                                session |-> workers[w].job.session]
                /\ shots' = [shots EXCEPT ![workers[w].job.session].inserts = @ + 1]
           ELSE UNCHANGED <<target, last_cmd, shots>>
    /\ workers' = [workers EXCEPT ![w] = IdleWorker]
    /\ UNCHANGED <<config, dsp, key_down, hotkey, controllerVars, queue, recorderVars,
                   audio, session, closed, chunk_seq, contended, applied, fed,
                   overflowed, notified, last_feed, failed>>

\* do_chunk_transcribe on a thread of the pool, the recognizer returning
\* one of the texts raws.
ChunkWorkerStepOn(w, raws) ==
    \/ TakeJob(w)
    \/ ChunkCheckActive(w)
    \/ \E raw \in raws : ChunkTranscribe(w, raw)
    \/ ChunkTranscribeRaises(w)
    \/ ChunkCheckText(w)
    \/ UpdateDelete(w)
    \/ UpdateInsert(w)
    \/ UpdateStore(w)
    \/ ChunkRelease(w)

ChunkWorkerStep(w) == ChunkWorkerStepOn(w, RawTexts)

\* do_transcribe on a thread of the pool.
OneShotWorkerStep(w) ==
    \/ \E raw \in RawTexts : OneShotTranscribe(w, raw)
    \/ OneShotRaises(w)
    \/ InjectResult(w)

WorkerStep(w) == ChunkWorkerStep(w) \/ OneShotWorkerStep(w)

\* ------------------------------------------------------------- specification
Next ==
    \/ Press
    \/ Release
    \/ HotkeyStep
    \/ \E indata \in Blocks : AudioCallback(indata)
    \/ AudioStep
    \/ \E w \in Workers : WorkerStep(w)

Spec == Init /\ [][Next]_vars

\* The program with an input stream that may fail to open.
NextStartFailure ==
    \/ Next
    \/ RecorderOpenStreamFails

SpecStartFailure == Init /\ [][NextStartFailure]_vars

\* Streaming mode (config.streaming, the default): the one-shot job is never
\* submitted, so its steps are left out.
InitStreaming ==
    /\ config \in [mode : {"hold", "toggle"}, streaming : {TRUE}]
    /\ InitState
    /\ dsp = NoDsp

NextStreaming ==
    \/ Press
    \/ Release
    \/ StreamingHotkeyStep
    \/ \E indata \in Blocks : AudioCallback(indata)
    \/ AudioStep
    \/ \E w \in Workers : ChunkWorkerStep(w)

SpecStreaming == InitStreaming /\ [][NextStreaming]_vars

\* One-shot mode (config.streaming off): no chunk callback is registered, so
\* the steps of _on_audio_chunk and do_chunk_transcribe are left out. The
\* blocks are loud, the capture being empty when stop comes before the first
\* callback; the recognizer returns a text between blanks or a junk phrase.
InitOneShot ==
    /\ config \in [mode : {"hold", "toggle"}, streaming : {FALSE}]
    /\ InitState
    /\ dsp = NoDsp

ShotTexts == {<<" ">> \o hello \o <<" ">> \o world, <<"Y", "o", "u", ".">>}

OneShotHotkeyStep ==
    \/ StartFlag
    \/ RecorderStart
    \/ RecorderOpenStream
    \/ RecorderStopFlag
    \/ RecorderCloseStream
    \/ RecorderStopCopy
    \/ StopSubmit

NextOneShot ==
    \/ Press
    \/ Release
    \/ OneShotHotkeyStep
    \/ \E indata \in LoudBlocks : AudioCallback(indata)
    \/ \E w \in Workers :
         \/ TakeJob(w)
         \/ \E raw \in ShotTexts : OneShotTranscribe(w, raw)
         \/ OneShotRaises(w)
         \/ InjectResult(w)

SpecOneShot == InitOneShot /\ [][NextOneShot]_vars

\* Streaming mode with the scheduling the threads have: a thread of the pool
\* that can step does, the recognizer and the injector return, a callback
\* in progress runs on, and a handler that can step does. Whether a handler
\* returns does not depend on what was said: the blocks are loud and the
\* recognizer returns a text or a junk phrase.
FairTexts == {hello, <<"Y", "o", "u", ".">>}

NextFair ==
    \/ Press
    \/ Release
    \/ StreamingHotkeyStep
    \/ \E indata \in LoudBlocks : AudioCallback(indata)
    \/ AudioStep
    \/ \E w \in Workers : ChunkWorkerStepOn(w, FairTexts)

FairStreaming ==
    /\ InitStreaming
    /\ [][NextFair]_vars
    /\ \A w \in Workers : WF_vars(ChunkWorkerStepOn(w, FairTexts))
    /\ WF_vars(AudioStep)
    /\ WF_vars(StreamingHotkeyStep)

\* The reconciler on its own: a streaming session in which a first result
\* old (or none) was applied and the recognition of the second chunk has
\* just returned new; the worker then runs _update_streaming_text.
Words == {hello, world, there}

RECURSIVE JoinSep(_, _)
JoinSep(words, sep) ==
    IF Len(words) = 1 THEN words[1]
    ELSE words[1] \o sep \o JoinSep(Tail(words), sep)

WordSeqs == UNION {[1..n -> Words] : n \in 1..MaxWords}

\* Texts transcribe can return: words separated by one or by two spaces.
Texts == {JoinSep(ws, sep) : ws \in WordSeqs, sep \in {<<SP>>, <<SP, SP>>}}

ReconJob == [kind |-> "chunk", id |-> 2, session |-> 1, audio |-> <<1, 1>>]

InitRecon ==
    /\ \E old \in Texts \cup {EmptyText}, new \in Texts :
         /\ last_text = old
         /\ target = Join(Split(old))
         /\ applied = (IF old = EmptyText THEN << >> ELSE <<1>>)
         /\ last_cmd = (IF old = EmptyText THEN NoCmd
                        ELSE [op |-> "insert", n |-> 0, text |-> Join(Split(old)),
                              session |-> 1])
         /\ workers = [w \in Workers |->
                         IF w = 1
                         THEN [IdleWorker EXCEPT !.pc = "c_check2", !.job = ReconJob,
                                                 !.raw = new, !.text = new]
                         ELSE IdleWorker]
    /\ config = [mode |-> "toggle", streaming |-> TRUE]
    /\ key_down = FALSE
    /\ hotkey = [pc |-> "idle", audio |-> << >>]
    /\ toggle_recording = TRUE
    /\ streaming_active = TRUE
    /\ transcribe_lock = TRUE
    /\ queue = << >>
    /\ buffer = [i \in 1..Min(2 * ChunkSamples, BUFFER_SIZE) |-> 1]
    /\ recording = TRUE
    /\ chunk_callback = TRUE
    /\ chunk_samples = ChunkSamples
    /\ samples_since_chunk = 0
    /\ stream = TRUE
    /\ orphans = 0
    /\ audio = IdleAudio
    /\ session = 1
    /\ closed = 0
    /\ chunk_seq = 2
    /\ contended = {}
    /\ fed = buffer
    /\ overflowed = (2 * ChunkSamples > BUFFER_SIZE)
    /\ notified = 2
    /\ last_feed = "stored"
    /\ shots = [s \in 1..MaxSessions |-> [calls |-> 0, inserts |-> 0]]
    /\ failed = {}
    /\ dsp = NoDsp

NextRecon ==
    \/ ChunkCheckText(1)
    \/ UpdateDelete(1)
    \/ UpdateInsert(1)
    \/ UpdateStore(1)
    \/ ChunkRelease(1)

SpecRecon == InitRecon /\ [][NextRecon]_vars

\* The recorder on its own: start, stop and the callback invoked in any order
\* by one caller, with or without a chunk callback registered.
InitRecorder ==
    /\ config \in [mode : {"hold"}, streaming : BOOLEAN]
    /\ InitState
    /\ dsp = NoDsp

\* A call of AudioRecorder.start.
CallStart ==
    /\ hotkey.pc = "idle"
    /\ session < MaxSessions
    /\ session' = session + 1
    /\ hotkey' = [hotkey EXCEPT !.pc = "start_rec"]
    /\ UNCHANGED <<config, dsp, key_down, controllerVars, queue, workers, recorderVars,
                   audio, closed, ghostVars>>

\* A call of AudioRecorder.stop.
CallStop ==
    /\ hotkey.pc = "idle"
    /\ hotkey' = [hotkey EXCEPT !.pc = "stop_rec1"]
    /\ UNCHANGED <<config, dsp, key_down, controllerVars, queue, workers, recorderVars,
                   audio, session, closed, ghostVars>>

\* AudioRecorder.stop has returned the capture to its caller.
CallReturn ==
    /\ hotkey.pc \in {"stop_wait", "stop_submit"}
    /\ hotkey' = [pc |-> "idle", audio |-> << >>]
    /\ UNCHANGED <<config, dsp, key_down, controllerVars, queue, workers, recorderVars,
                   audio, session, closed, ghostVars>>

NextRecorder ==
    \/ CallStart
    \/ RecorderStart
    \/ RecorderOpenStream
    \/ CallStop
    \/ RecorderStopFlag
    \/ RecorderCloseStream
    \/ RecorderStopCopy
    \/ CallReturn
    \/ \E indata \in Blocks : Callback(indata)
    \/ OnAudioChunkEnter

SpecRecorder == InitRecorder /\ [][NextRecorder]_vars

\* ------------------------------------------------------------- filters
\* Samples are binary floating-point numbers sign * m * 2^e with MantissaBits
\* significant bits, rounded to nearest, ties to even (np.float32). Zero has
\* m = 0. The inputs are normal numbers; the exponent range is not limited.
RECURSIVE Pow2(_)
Pow2(n) == IF n = 0 THEN 1 ELSE 2 * Pow2(n - 1)

MantLo == Pow2(MantissaBits - 1)

MantHi == Pow2(MantissaBits) - 1

Zero == [sign |-> 1, m |-> 0, e |-> 0]

\* The positive number num / den * 2^e rounded to a float.
RECURSIVE RoundFloat(_, _, _)
RoundFloat(num, den, e) ==
    IF num < MantLo * den THEN RoundFloat(2 * num, den, e - 1)
    ELSE IF num >= (MantHi + 1) * den THEN RoundFloat(num, 2 * den, e + 1)
    ELSE LET q == num \div den
             r == num % den
             up == 2 * r > den \/ (2 * r = den /\ q % 2 = 1)
             m == IF up THEN q + 1 ELSE q
         IN  IF m > MantHi THEN [sign |-> 1, m |-> MantLo, e |-> e + 1]
             ELSE [sign |-> 1, m |-> m, e |-> e]

\* np.abs
Abs(x) == [x EXCEPT !.sign = 1]

\* a < b for floats that are not negative.
Less(a, b) ==
    IF b.m = 0 THEN FALSE
    ELSE IF a.m = 0 THEN TRUE
    ELSE a.e < b.e \/ (a.e = b.e /\ a.m < b.m)

\* As Peak, without np.abs: the largest sample, negative ones counting as 0.
PeakSigned(x) ==
    LET pos == {i \in 1..Len(x) : x[i].sign = 1}
    IN  IF pos = {} THEN Zero
        ELSE x[CHOOSE i \in pos : \A j \in pos : ~Less(x[i], x[j])]

\* np.max(np.abs(audio)), for a non-empty audio
Peak(x) ==
    Abs(x[CHOOSE i \in 1..Len(x) :
                \A j \in 1..Len(x) : ~Less(Abs(x[i]), Abs(x[j]))])

\* target_level = 0.9 as a float.
TargetLevel == RoundFloat(9, 10, 0)

\* target_level / peak as the float the samples are multiplied by. The
\* division is done on np.float32 operands or, under NumPy's older promotion
\* rules, in double precision with one rounding to np.float32.
Scales(peak) ==
    { RoundFloat(TargetLevel.m, peak.m, TargetLevel.e - peak.e),
      RoundFloat(9, 10 * peak.m, 0 - peak.e) }

\* audio * scale for one sample, rounded by astype(DTYPE).
Scaled(x, scale) ==
    IF x.m = 0 THEN x
    ELSE [RoundFloat(x.m * scale.m, 1, x.e + scale.e) EXCEPT !.sign = x.sign]

\* normalize_audio
normalize_audio(x, scale) ==
    IF Len(x) = 0 THEN x
    ELSE IF Less(Zero, Peak(x))
         THEN [i \in 1..Len(x) |-> Scaled(x[i], scale)]
         ELSE x

\* The samples of a filter input: zero and the normal numbers of ExpSpan
\* binades below 2.
FloatSamples ==
    {Zero} \cup [sign : {1, -1}, m : MantLo..MantHi,
                 e : (1 - MantissaBits - ExpSpan + 1)..(1 - MantissaBits)]

FloatAudio == UNION {[1..n -> FloatSamples] : n \in 0..DspLen}

\* A call of normalize_audio on any input.
InitNormalize ==
    /\ InitState
    /\ config = [mode |-> "toggle", streaming |-> TRUE]
    /\ dsp \in [pc : {"normalize"}, audio : FloatAudio, out : {<< >>}]

Normalize ==
    /\ dsp.pc = "normalize"
    /\ \E scale \in (IF Len(dsp.audio) = 0 \/ Peak(dsp.audio).m = 0 THEN {Zero}
                     ELSE Scales(Peak(dsp.audio))) :
         dsp' = [dsp EXCEPT !.pc = "normalized",
                            !.out = normalize_audio(dsp.audio, scale)]
    /\ UNCHANGED <<config, key_down, hotkey, controllerVars, queue, workers,
                   recorderVars, audio, session, closed, ghostVars>>

SpecNormalize == InitNormalize /\ [][Normalize]_vars

\* compress_audio. The samples of its input are counted in halves of full
\* scale, the envelope and the gain are exact fractions [num, den] (the
\* filter runs in double precision, whose rounding is left out), and the
\* output is rounded to a float by astype(DTYPE).
Halves == -2..2

Threshold == 1

Ratio == 4

One == [num |-> 1, den |-> 1]

\* attack_coef and release_coef are k / CoefSteps: any number above 0 and at
\* most 1.0, the value taken for a time constant that is not positive.
Coefs == 1..CoefSteps

AbsHalf(s) == IF s < 0 THEN 0 - s ELSE s

\* signal.lfilter(b, a, abs_audio) with b = [c] and a = [1, -(1 - c)] for
\* c = cn / cd: y[i] = c * x[i] + (1 - c) * y[i-1], from y[0] = 0.
RECURSIVE lfilter(_, _, _)
lfilter(cn, cd, x) ==
    IF Len(x) = 0 THEN << >>
    ELSE LET prev == lfilter(cn, cd, SubSeq(x, 1, Len(x) - 1))
             last == IF Len(prev) = 0 THEN [num |-> 0, den |-> 1]
                     ELSE prev[Len(prev)]
         IN  Append(prev, [num |-> cn * x[Len(x)] * last.den
                                     + (cd - cn) * last.num,
                           den |-> cd * last.den])

\* The envelope of the call: one filter whose coefficient is
\* avg_coef = (attack_coef + release_coef) / 2 for every sample.
Envelope(x, attack_coef, release_coef) ==
    lfilter(attack_coef + release_coef, 2 * CoefSteps,
            [i \in 1..Len(x) |-> AbsHalf(x[i])])

\* envelope > threshold after np.maximum(envelope, 1e-10): the threshold and
\* every envelope that is not 0 are above 1e-10, so that only an envelope of
\* 0 is raised, to a value that stays below the threshold.
AboveThreshold(y) == y.num > 0 /\ y.num > Threshold * y.den

\* np.where(envelope > threshold,
\*          (threshold + (envelope - threshold) / ratio) / envelope, 1.0)
Gain(y) ==
    IF AboveThreshold(y)
    THEN [num |-> Threshold * (Ratio - 1) * y.den + y.num, den |-> Ratio * y.num]
    ELSE One

\* (audio * gain).astype(DTYPE) for one sample
Compressed(s, g) ==
    IF s = 0 THEN Zero
    ELSE [RoundFloat(AbsHalf(s) * g.num, 2 * g.den, 0)
             EXCEPT !.sign = IF s < 0 THEN -1 ELSE 1]

compress_audio(x, attack_coef, release_coef) ==
    LET envelope == Envelope(x, attack_coef, release_coef)
        gain == [i \in 1..Len(x) |-> Gain(envelope[i])]
    IN  [envelope |-> envelope, gain |-> gain,
         out |-> [i \in 1..Len(x) |-> Compressed(x[i], gain[i])]]

HalfAudio == UNION {[1..n -> Halves] : n \in 0..DspLen}

\* A call of compress_audio on any input with any two coefficients.
InitCompress ==
    /\ InitState
    /\ config = [mode |-> "toggle", streaming |-> TRUE]
    /\ dsp \in [pc : {"compress"}, audio : HalfAudio, attack_coef : Coefs,
                release_coef : Coefs, envelope : {<< >>}, gain : {<< >>},
                out : {<< >>}]

Compress ==
    /\ dsp.pc = "compress"
    /\ LET r == compress_audio(dsp.audio, dsp.attack_coef, dsp.release_coef)
       IN  dsp' = [dsp EXCEPT !.pc = "compressed", !.envelope = r.envelope,
                              !.gain = r.gain, !.out = r.out]
    /\ UNCHANGED <<config, key_down, hotkey, controllerVars, queue, workers,
                   recorderVars, audio, session, closed, ghostVars>>

SpecCompress == InitCompress /\ [][Compress]_vars

\* ------------------------------------------------------------- claims
\* C1: in streaming mode at most one chunk recognition is in flight at any
\* moment, a recognition being in flight from its admission by
\* _on_audio_chunk until its job has released the token.
C1_AtMostOneInFlight == Cardinality(ChunkJobs) <= 1

\* A second chunk asks for the token while the first is being recognized.
C1_Witness ==
    /\ audio.pc = "chunk_acquire"
    /\ \E w \in Workers : workers[w].pc = "c_transcribe"

\* C2: a chunk that arrives while an earlier recognition is in flight is
\* dropped: no job carries it, in the hand-off, in the queue or on a thread
\* of the pool, and its result is never applied.
C2_ContendedChunkDropped ==
    /\ contended \cap ChunkJobs = {}
    /\ \A i \in 1..Len(applied) : applied[i] \notin contended

\* A chunk was dropped while the earlier recognition is still running.
C2_Witness ==
    /\ contended # {}
    /\ audio.pc = "idle"
    /\ \E w \in Workers : workers[w].pc = "c_transcribe"

\* A step of the worker that issues a command or stores the emitted text.
EditStep(w) ==
    /\ workers'[w].pc # workers[w].pc
    /\ \/ workers[w].pc = "u_delete" /\ workers[w].chars_to_delete > 0
       \/ workers[w].pc = "u_insert" /\ workers[w].text_to_add # << >>
       \/ workers[w].pc = "u_store"

\* C3: once stop_recording has returned for a session, no worker of that
\* session issues a delete or an insert or stores the last-emitted text.
C3_NoEditAfterStop ==
    [][\A w \in Workers : EditStep(w) => workers[w].job.session > closed]_vars

\* A session that issued commands is closed and the handler has returned.
C3_Witness ==
    /\ closed >= 1
    /\ hotkey.pc = "idle"
    /\ last_cmd.op # "none"
    /\ last_cmd.session = closed

\* C4: results are applied to the reconciler in the order their chunks were
\* admitted (chunk ids are given in the order of the notifications).
C4_AppliedInAdmissionOrder ==
    \A i, j \in 1..Len(applied) : i < j => applied[i] < applied[j]

\* Two results of one behaviour were applied.
C4_Witness == Len(applied) >= 2

\* The handler is inside _stop_and_transcribe.
Stopping == hotkey.pc \in {"stop_rec1", "stop_stream", "stop_rec2", "stop_wait"}

\* Idle: no handler runs, nothing records, no recognition is in flight.
Idle ==
    /\ hotkey.pc = "idle"
    /\ ~recording
    /\ ~stream
    /\ ~streaming_active
    /\ ~transcribe_lock
    /\ ChunkJobs = {}

\* C5: in streaming mode, when every recognizer call returns,
\* stop_recording returns with the controller and the recorder idle: it
\* does not deadlock on the recorder lock, the token or the worker.
C5_StopReturnsToIdle == Stopping ~> Idle

\* stop_recording waits for the token while a recognition is in flight.
C5_Witness ==
    /\ hotkey.pc = "stop_wait"
    /\ transcribe_lock
    /\ \E w \in Workers : workers[w].pc = "c_transcribe"

\* C6: the audio callback never waits for a recognition: inside the
\* callback the audio thread can always take its next step, whatever the
\* token and the workers do.
C6_CallbackNeverWaits == audio.pc # "idle" => ENABLED AudioStep

\* A callback dropped its chunk and a later one appended its block, all
\* while the recognition of an earlier chunk is still running.
C6_Witness ==
    /\ contended # {}
    /\ audio = IdleAudio
    /\ transcribe_lock
    /\ \E w \in Workers :
         /\ workers[w].pc = "c_transcribe"
         /\ Len(buffer) > Len(workers[w].job.audio)
\* C7: within a streaming session, after every applied non-empty result
\* new, the text the session's delete and insert commands materialized is
\* the words of new joined by single spaces.
C7_TargetIsNewText ==
    \A w \in Workers :
        (workers[w].pc = "c_release" /\ workers[w].applied)
            => target = Join(Split(workers[w].text))

\* A second result of a session was applied by a delete and an insert.
C7_Witness ==
    \E w \in Workers :
        /\ workers[w].pc = "c_release"
        /\ workers[w].applied
        /\ workers[w].chars_to_delete > 0
        /\ workers[w].text_to_add # << >>

\* The length of the longest common prefix of two word sequences.
CommonPrefixLen(a, b) ==
    CHOOSE n \in 0..Min(Len(a), Len(b)) :
        /\ \A i \in 1..n : a[i] = b[i]
        /\ n = Min(Len(a), Len(b)) \/ a[n + 1] # b[n + 1]

\* The words of a text after its first k words, joined by single spaces.
WordsAfter(text, k) == Join(SubSeq(Split(text), k + 1, Len(Split(text))))

\* C8: with k the length of the longest common word prefix of old and new,
\* the delete count is len(old_suffix), plus 1 exactly when k > 0 and
\* old_suffix is not empty, and the insert text is new_suffix, prefixed by
\* one space exactly when k > 0 and new_suffix is not empty.
C8_EditFormula ==
    \A w \in Workers :
        workers[w].pc = "u_delete" =>
            LET k == CommonPrefixLen(Split(last_text), Split(workers[w].text))
                old_suffix == WordsAfter(last_text, k)
                new_suffix == WordsAfter(workers[w].text, k)
            IN  /\ workers[w].chars_to_delete =
                      Len(old_suffix) + (IF k > 0 /\ old_suffix # << >> THEN 1 ELSE 0)
                /\ workers[w].text_to_add =
                      (IF k > 0 /\ new_suffix # << >> THEN <<SP>> \o new_suffix
                       ELSE new_suffix)

\* An edit with a stable prefix that replaces a non-empty old suffix by a
\* non-empty new one.
C8_Witness ==
    \E w \in Workers :
        /\ workers[w].pc = "u_delete"
        /\ CommonPrefixLen(Split(last_text), Split(workers[w].text)) > 0
        /\ WordsAfter(last_text, 1) # << >>
        /\ workers[w].chars_to_delete > 1
        /\ workers[w].text_to_add # << >>

HelloWorld == hello \o <<SP>> \o world

HelloThere == hello \o <<SP>> \o there

\* The reconciler has computed the edit from "hello world" to "hello there".
C9_Case(w) ==
    /\ workers[w].pc = "u_delete"
    /\ last_text = HelloWorld
    /\ workers[w].text = HelloThere

\* C9 as stated: old = "hello world", new = "hello there" gives a delete
\* count of 5 and the insert text " there".
C9_Original ==
    \A w \in Workers :
        C9_Case(w) => /\ workers[w].chars_to_delete = 5
                      /\ workers[w].text_to_add = <<SP>> \o there

\* C9, amended: old = "hello world", new = "hello there" gives a delete
\* count of 6 (the length of "world" and the space before it) and the
\* insert text " there".
C9_DeleteSixInsertThere ==
    \A w \in Workers :
        C9_Case(w) => /\ workers[w].chars_to_delete = 6
                      /\ workers[w].text_to_add = <<SP>> \o there

C9_Witness == \E w \in Workers : C9_Case(w)

\* A recognition that came out empty: a silent or empty snapshot, or the
\* junk phrase "You." from the recognizer, or an empty text.
EmptyRecognition(w) ==
    \/ workers[w].text = EmptyText
    \/ SumSq(workers[w].job.audio) < Len(workers[w].job.audio)
    \/ workers[w].raw = <<"Y", "o", "u", ".">>

\* C10: an empty recognition result for a streaming chunk (silence or a
\* filtered hallucination) issues no delete and no insert and leaves the
\* last-emitted text as it was: the job goes straight to the release.
C10_EmptyResultNoEdit ==
    [][\A w \in Workers :
          (/\ workers[w].pc \in {"c_check2", "u_delete", "u_insert", "u_store"}
           /\ EmptyRecognition(w)
           /\ workers'[w] # workers[w])
          => /\ workers'[w].pc = "c_release"
             /\ ~workers'[w].applied
             /\ UNCHANGED <<last_text, target, last_cmd>>]_vars

\* A junk phrase was filtered while text of the session is on the target.
C10_Witness ==
    \E w \in Workers :
        /\ workers[w].pc = "c_release"
        /\ workers[w].raw = <<"Y", "o", "u", ".">>
        /\ workers[w].text = EmptyText
        /\ last_text # EmptyText
        /\ target # EmptyText

\* C12: a callback that arrives while the recorder is not recording, before
\* any start or after a stop, changes nothing: no frame is stored, the counter
\* stays, no chunk notification fires, and outside a call of stop the
\* accumulated length is 0.
C12_IdleFeedIgnored ==
    /\ [](~recording /\ hotkey.pc \in {"idle", "start_rec", "stop_wait", "stop_submit"}
            => write_pos = 0)
    /\ [][(~recording /\ audio.pc = "idle" /\ hotkey' = hotkey)
            => UNCHANGED <<buffer, samples_since_chunk, chunk_seq, notified, audio>>]_vars

C12_Witness ==
    /\ last_feed = "ignored"
    /\ session > 0
    /\ hotkey.pc = "idle"
    /\ ~recording
    /\ write_pos = 0

\* C13: when the frames delivered since start fit the buffer, stop returns
\* exactly those frames, block after block in arrival order, and leaves the
\* recorder with write position 0 and not recording.
C13_StopReturnsCapture ==
    [][(hotkey.pc = "stop_rec2" /\ hotkey'.pc # "stop_rec2" /\ ~overflowed)
        => (hotkey'.audio = fed /\ write_pos' = 0 /\ ~recording')]_vars

C13_Witness ==
    /\ hotkey.pc \in {"stop_wait", "stop_submit"}
    /\ hotkey.audio = <<1, 0>>
    /\ write_pos = 0
    /\ ~recording

\* C14: every chunk notification delivers the whole capture since start, from
\* frame 0 up to and including the block that triggered it, never only the
\* frames since the previous notification.
C14_ChunkIsPrefixFromStart ==
    audio.pc = "chunk_enter" => (audio.snapshot = fed /\ audio.snapshot = buffer)

C14_Witness ==
    /\ audio.pc = "chunk_enter"
    /\ notified = 2
    /\ Len(audio.snapshot) > chunk_samples
    /\ audio.snapshot = fed

\* A callback runs to its end while the recorder counts frames for chunks.
CountingFeed ==
    /\ recording /\ chunk_callback /\ chunk_samples > 0
    /\ audio.pc = "idle"
    /\ hotkey' = hotkey
    /\ vars' # vars

\* C15: with a chunk size c > 0 a notification fires on a callback exactly
\* when the frames counted since the previous notification (or since start)
\* have reached c, and the counter is then reset to 0; so the counter stays
\* below c and c times the number of notifications is at most the number of
\* frames delivered.
C15_NotifyExactlyAtChunkSize ==
    /\ []((chunk_callback /\ chunk_samples > 0)
            => /\ samples_since_chunk < chunk_samples
               /\ ~overflowed
                    => notified * chunk_samples + samples_since_chunk <= Len(fed))
    /\ [][CountingFeed =>
            IF notified' = notified + 1
            THEN /\ samples_since_chunk' = 0
                 /\ audio'.pc = "chunk_enter"
                 /\ ~overflowed'
                      => samples_since_chunk + Len(fed') - Len(fed) >= chunk_samples
            ELSE /\ notified' = notified
                 /\ audio' = audio
                 /\ samples_since_chunk' > samples_since_chunk
                 /\ samples_since_chunk' < chunk_samples]_vars

C15_Witness ==
    /\ chunk_callback
    /\ notified = 1
    /\ samples_since_chunk = 1
    /\ Len(fed) = 3
    /\ ~overflowed
    /\ audio.pc = "idle"

\* C16: the write position never passes the buffer size: a block that would
\* pass it is stored only as far as it fits, the rest is dropped, and the
\* frames already stored stay as they were.
C16_BufferCapped ==
    /\ write_pos <= BUFFER_SIZE
    /\ buffer = fed

C16_Witness ==
    /\ overflowed
    /\ recording
    /\ buffer = <<0, 0, 1>>

\* The commands a reconciliation has to issue, in order.
DeletePart(r) == IF r.chars_to_delete > 0 THEN <<"delete">> ELSE << >>

InsertPart(r) == IF r.text_to_add # << >> THEN <<"insert">> ELSE << >>

\* C11: a reconciliation issues its delete command, when the count is not
\* zero, before its insert command, when the text is not empty; a zero delete
\* and an empty insert are not issued; _last_text becomes the new text only
\* after both commands.
C11_DeleteThenInsertThenStore ==
    /\ [](\A w \in Workers :
            LET r == workers[w]
            IN  /\ r.pc = "u_delete" => r.issued = << >>
                /\ r.pc = "u_insert"
                     => /\ r.issued = DeletePart(r)
                        /\ r.chars_to_delete > 0
                             => (last_cmd.op = "delete"
                                 /\ last_cmd.n = r.chars_to_delete)
                /\ (r.pc = "u_store" \/ (r.pc = "c_release" /\ r.applied))
                     => /\ r.issued = DeletePart(r) \o InsertPart(r)
                        /\ r.text_to_add # << >>
                             => (last_cmd.op = "insert"
                                 /\ last_cmd.text = r.text_to_add))
    /\ [][last_text' # last_text
            => \E w \in Workers :
                 /\ workers[w].pc = "u_store"
                 /\ workers[w].issued = DeletePart(workers[w]) \o InsertPart(workers[w])
                 /\ last_text' = workers[w].text]_vars

C11_Witness ==
    /\ workers[1].pc = "c_release"
    /\ workers[1].applied
    /\ workers[1].issued = <<"delete", "insert">>
    /\ last_text = workers[1].text

\* The one-shot job of session s is queued or on a thread of the pool.
PendingShot(s) ==
    \/ \E i \in 1..Len(queue) : queue[i].kind = "oneshot" /\ queue[i].session = s
    \/ \E w \in Workers :
         workers[w].job.kind = "oneshot" /\ workers[w].job.session = s

\* Session s was stopped and its job has ended.
FinishedShot(s) == s <= closed /\ ~PendingShot(s)

\* C17, as stated: in one-shot mode no delete is issued, and every stopped
\* session whose job has ended had the recognizer invoked exactly once and
\* at most one insert.
C17_Original ==
    /\ last_cmd.op # "delete"
    /\ \A s \in 1..MaxSessions :
         FinishedShot(s) => (shots[s].calls = 1 /\ shots[s].inserts <= 1)

\* C17, amended: in one-shot mode no delete is issued; stop submits one job
\* over the capture it returned; the job invokes the recognizer once when
\* the capture is neither empty nor silent and not at all otherwise, and
\* issues one insert carrying the whole recognized text when that text is
\* not empty and no insert when it is.
C17_OneJobOneInsert ==
    /\ [](/\ last_cmd.op # "delete"
          /\ \A s \in 1..MaxSessions :
               /\ shots[s].calls <= 1
               /\ shots[s].inserts <= shots[s].calls
               /\ s > closed => shots[s] = [calls |-> 0, inserts |-> 0]
          /\ \A i \in 1..Len(queue) :
               shots[queue[i].session] = [calls |-> 0, inserts |-> 0]
          /\ \A w \in Workers :
               LET r == workers[w]
               IN  /\ r.pc = "t_transcribe"
                        => shots[r.job.session] = [calls |-> 0, inserts |-> 0]
                   /\ r.pc = "t_inject"
                        => /\ shots[r.job.session].inserts = 0
                           /\ shots[r.job.session].calls
                                = (IF SkipsRecognizer(r.job.audio) THEN 0 ELSE 1)
                           /\ SkipsRecognizer(r.job.audio) => r.text = EmptyText)
    /\ [][/\ (hotkey.pc = "stop_rec2" /\ hotkey'.pc = "stop_submit")
               => hotkey'.audio = fed
          /\ (hotkey.pc = "stop_submit" /\ hotkey'.pc = "idle")
               => queue' = Append(queue, [kind |-> "oneshot", id |-> 0,
                                          session |-> session,
                                          audio |-> hotkey.audio])
          /\ \A w \in Workers :
               (workers[w].pc = "t_inject" /\ workers'[w].pc = "idle")
               => LET r == workers[w]
                  IN  IF r.text # EmptyText
                      THEN /\ shots'[r.job.session].inserts = 1
                           /\ last_cmd' = [op |-> "insert", n |-> 0, text |-> r.text,
                                           session |-> r.job.session]
                           /\ target' = target \o r.text
                      ELSE /\ shots'[r.job.session].inserts = 0
                           /\ UNCHANGED <<target, last_cmd>>]_vars

C17_Witness ==
    /\ FinishedShot(1)
    /\ FinishedShot(2)
    /\ shots[1] = [calls |-> 1, inserts |-> 1]
    /\ shots[2] = [calls |-> 0, inserts |-> 0]
    /\ last_cmd.text = HelloWorld

\* C18: when the recognizer raises on a streaming chunk, that chunk issues no
\* delete and no insert and leaves _last_text as it was, the token is
\* released (it is never held without a job in flight), and the recorder is
\* not touched, so a later chunk is admitted as before.
C18_RecognizerFailureContained ==
    /\ [](/\ \A w \in Workers :
               (workers[w].job.kind = "chunk" /\ workers[w].job.id \in failed)
               => /\ workers[w].pc = "c_release"
                  /\ workers[w].issued = << >>
                  /\ ~workers[w].applied
          /\ \A i \in 1..Len(applied) : applied[i] \notin failed
          /\ transcribe_lock => ChunkJobs # {})
    /\ [][\A w \in Workers :
             (workers[w].pc = "c_transcribe" /\ workers'[w].pc = "c_release")
             => UNCHANGED <<last_text, target, last_cmd, applied, recorderVars,
                            audio, streaming_active>>]_vars

C18_Witness ==
    /\ failed = {1}
    /\ applied = <<2>>
    /\ ~transcribe_lock

\* C19: when the input stream fails to open at the start of a session, the
\* session ends cleanly: once the handler has returned with no stream open,
\* the recorder is not recording, the streaming flag is off and the toggle
\* flag is off, as in the initial state.
C19_StartFailureReturnsToIdle ==
    (hotkey.pc = "idle" /\ ~stream)
    => (~recording /\ ~streaming_active /\ ~toggle_recording /\ ~chunk_callback)

\* The chunk jobs in the queue and on the threads of the pool.
ChunkJobRecords ==
    {queue[i] : i \in {j \in 1..Len(queue) : queue[j].kind = "chunk"}}
    \cup {workers[w].job : w \in {v \in Workers : workers[v].job.kind = "chunk"}}

\* C20: while a session is being started _last_text is empty; every chunk
\* job alive belongs to the session in progress, so no result of an earlier
\* session is reconciled into or written over the new session's text; and a
\* result that deletes is never the first one its session emits.
C20_SessionsDoNotMix ==
    /\ hotkey.pc \in {"start_flag", "start_rec", "start_stream"}
         => last_text = EmptyText
    /\ \A j \in ChunkJobRecords : j.session = session /\ j.session > closed
    /\ \A w \in Workers :
         (workers[w].pc = "u_delete" /\ workers[w].chars_to_delete > 0)
         => (last_cmd.session = workers[w].job.session /\ last_text # EmptyText)

C20_Witness ==
    /\ session = 2
    /\ closed = 1
    /\ applied = <<1, 2>>
    /\ \E w \in Workers :
         /\ workers[w].pc = "c_release"
         /\ workers[w].applied
         /\ workers[w].job.session = 2
         /\ workers[w].issued = <<"insert">>
         /\ workers[w].text_to_add = Join(Split(workers[w].text))

\* The energy of the first n frames of a.
Energy(a, n) == IF n = 0 THEN 0 ELSE SumSq(SubSeq(a, 1, n))

\* The snapshot is empty or its RMS is below config.silence_threshold.
BelowThreshold(a) ==
    \/ Len(a) = 0
    \/ Energy(a, Len(a)) < SilenceThreshold * SilenceThreshold * Len(a)

\* C21: on a snapshot that is empty or whose RMS is below the silence
\* threshold the recognizer is not invoked (it returns no text and cannot
\* raise) and transcribe returns the empty text.
C21_SilenceSkipsRecognizer ==
    \A w \in Workers :
        LET r == workers[w]
        IN  (r.job.kind = "chunk" /\ BelowThreshold(r.job.audio))
            => /\ r.raw = << >>
               /\ r.text = EmptyText
               /\ r.job.id \notin failed
               /\ r.pc \in {"c_check1", "c_transcribe", "c_check2", "c_release"}

C21_Witness ==
    \E w \in Workers :
        /\ workers[w].pc = "c_check2"
        /\ workers[w].job.audio = <<1, 0>>
        /\ workers[w].raw = << >>
        /\ workers[w].text = EmptyText

\* The largest absolute value among the samples of a non-empty a.
MaxAbs(a) ==
    CHOOSE v \in {[a[i] EXCEPT !.sign = 1] : i \in 1..Len(a)} :
        \A j \in 1..Len(a) : ~Less(v, [a[j] EXCEPT !.sign = 1])

\* The result of normalize_audio where the input has a peak above 0.
NormalizedPeak ==
    /\ dsp.pc = "normalized"
    /\ Len(dsp.audio) > 0
    /\ MaxAbs(dsp.audio).m > 0

\* The input is returned as it is when it is empty or has peak 0.
NormalizeNoOp ==
    (dsp.pc = "normalized" /\ (Len(dsp.audio) = 0 \/ MaxAbs(dsp.audio).m = 0))
    => dsp.out = dsp.audio

NearTarget(x) ==
    LET scale == Pow2(0 - x.e)
        diff == 10 * x.m - 9 * scale
        dist == IF diff < 0 THEN 0 - diff ELSE diff
    IN  x.e < 0 /\ dist * Pow2(MantissaBits - 2) <= 9 * scale

RECURSIVE PerSampleEnvelope(_, _, _)
PerSampleEnvelope(x, attack_coef, release_coef) ==
    IF Len(x) = 0 THEN << >>
    ELSE LET prev == PerSampleEnvelope(SubSeq(x, 1, Len(x) - 1),
                                       attack_coef, release_coef)
             last == IF Len(prev) = 0 THEN [num |-> 0, den |-> 1]
                     ELSE prev[Len(prev)]
             mag == IF x[Len(x)] < 0 THEN 0 - x[Len(x)] ELSE x[Len(x)]
             coef == IF mag * last.den > last.num THEN attack_coef
                     ELSE release_coef
         IN  Append(prev, [num |-> coef * mag * last.den
                                     + (CoefSteps - coef) * last.num,
                           den |-> CoefSteps * last.den])

\* Two fractions that are the same number.
SameNumber(a, b) == a.num * b.den = b.num * a.den

\* C23: the envelope of a compressed input is the one of a follower that
\* takes, sample by sample, the attack coefficient while the envelope rises
\* (abs(sample) above the envelope so far) and the release coefficient
\* while it falls, and the gain is 1 wherever the envelope is 0.
C23_PerSampleCoefficient ==
    dsp.pc = "compressed"
        => LET want == PerSampleEnvelope(dsp.audio, dsp.attack_coef,
                                         dsp.release_coef)
           IN  /\ Len(dsp.envelope) = Len(dsp.audio)
               /\ \A i \in 1..Len(dsp.audio) :
                      /\ SameNumber(dsp.envelope[i], want[i])
                      /\ dsp.envelope[i].num = 0 => dsp.gain[i] = One

\* C24: in one-shot mode the texts of consecutive sessions are inserted in
\* the order the sessions were stopped: at the insert of a session's text
\* no session stopped after it has had its text inserted, whatever threads
\* of the pool run the jobs and however long the recognizer takes.
C24_InsertedInStopOrder ==
    [][\A s \in 1..MaxSessions :
         shots'[s].inserts > shots[s].inserts
             => \A t \in (s + 1)..MaxSessions : shots[t].inserts = 0]_vars

\* The input streams that are open.
OpenStreams == (IF stream THEN 1 ELSE 0) + orphans

\* C25: whatever the order of the calls of start and stop, a start while
\* recording included, at most one input stream is open, and once stop has
\* returned every stream that a start opened is closed, so that none
\* delivers blocks into a later session.
C25_AtMostOneOpenStream ==
    /\ OpenStreams <= 1
    /\ (hotkey.pc = "idle" /\ ~recording) => OpenStreams = 0

====
